---- MODULE Spec2Model ----
(***************************************************************************)
(* Model of the enclave StorageService (storage.rs): an encrypted,         *)
(* optionally compressed key/value store with a metadata index that is     *)
(* snapshotted to index.json after every mutating call.                    *)
(*                                                                         *)
(* Bytes are modelled as 1-tuples <<b>>.  The cryptographic primitives are *)
(* ideal: SHA-256 is an injective symbolic term, PBKDF2 is injective in    *)
(* (master key, caller secret), and the 16 bytes of a GCM tag are terms    *)
(* that bind the key, the nonce and the ciphertext, so a tag verifies only *)
(* when it is recomputed from exactly the values it was made from.         *)
(*                                                                         *)
(* Every handler is a function from the service state and its arguments to *)
(* an effect (result, returned bytes, next state); the actions apply it.   *)
(***************************************************************************)
EXTENDS Integers, Sequences, FiniteSets, TLC

(* ------------------------------ bounds -------------------------------- *)
\* how many times the master key is replaced
MaxRekey == 1
\* how many retrieves of a key the concurrent callers make
ConcAccess == 2
MaxTime == 1
MaxAccess == 1
MaxFaults == 1
\* byte values are 0..ByteMod-1
ByteMod == 8

(* -------------------------- program constants ------------------------- *)
\* storage.rs:135 sets 100 MiB; the model scales the limit down so that
\* blobs at, below and above the limit are all enumerable.
max_file_size == 4
NonceLen == 12
TagLen == 16
MinEncryptedLen == 28

(* ------------------------------- inputs ------------------------------- *)
EmptyKey == 0
Keys == {1, 2}
KeyArgs == {EmptyKey} \cup Keys
Secrets == {1, 2}
NonceVals == {0}
MasterKey == 0

Run(b, n) == [i \in 1..n |-> b]

\* what callers store: the empty blob (which no codec makes smaller), a
\* compressible blob of exactly the size limit, and a blob one byte over it
DataSet == { <<>>, Run(1, max_file_size), Run(1, max_file_size + 1) }

\* what the properties try on every reachable state: DataSet, a blob whose
\* compressed form is exactly as long as the blob, and incompressible blobs
ProbeData ==
    DataSet \cup { Run(1, max_file_size - 1), Run(1, 3), <<2>>,
                   [i \in 1..max_file_size |-> 1 + (i % 2)] }

\* the callers' secrets, the empty secret (0) and an unused one
ProbeSecrets == Secrets \cup {0, 3}

(* ----------------------------- Option<T> ------------------------------ *)
None == <<>>
Some(x) == <<x>>
IsSome(o) == o # <<>>

(* ------------------------------ SHA-256 ------------------------------- *)
Sha256(bytes) == <<"sha256", bytes>>

\* StorageIndex::key_to_file_path: <dir>/<hex(sha256(key))>.dat
key_to_file_path(key) == <<"dat", Sha256(key)>>

Paths == { key_to_file_path(k) : k \in Keys }

(* ------------------------------- codec -------------------------------- *)
\* Run-length stand-in for the LZ4 block format: a list of (count, byte)
\* pairs, one per maximal run.
RECURSIVE RunLen(_, _)
RunLen(d, i) ==
    IF i < Len(d) /\ d[i + 1] = d[i] THEN 1 + RunLen(d, i + 1) ELSE 1

RECURSIVE EncodeRuns(_, _)
EncodeRuns(d, i) ==
    IF i > Len(d) THEN <<>>
    ELSE LET n == RunLen(d, i) IN <<n, d[i]>> \o EncodeRuns(d, i + n)

RECURSIVE DecodeRuns(_, _)
DecodeRuns(c, i) ==
    IF i + 1 > Len(c) THEN <<>>
    ELSE Run(c[i + 1], c[i]) \o DecodeRuns(c, i + 2)

\* compress_prepend_size: the uncompressed length, then the block
compress_data(data) == <<Len(data)>> \o EncodeRuns(data, 1)

\* decompress_size_prepended: fails on a missing prefix, a malformed block,
\* or a block that does not expand to the announced length
decompress_data(c) ==
    IF Len(c) = 0 \/ (Len(c) - 1) % 2 # 0
    THEN [ok |-> FALSE, bytes |-> <<>>]
    ELSE LET d == DecodeRuns(c, 2) IN
         IF Len(d) = c[1] THEN [ok |-> TRUE, bytes |-> d]
         ELSE [ok |-> FALSE, bytes |-> <<>>]

(* ------------------------------- AEAD --------------------------------- *)
\* derive_encryption_key that leaves the user key out
derive_encryption_key_NoSecret(master, user_key) == master * ByteMod

\* PBKDF2 over hex(master key) ++ user key; hex(master) has a fixed length
derive_encryption_key(master, user_key) == master * ByteMod + user_key


RECURSIVE SumBytes(_, _)
SumBytes(bs, i) == IF i > Len(bs) THEN 0 ELSE bs[i][1] + SumBytes(bs, i + 1)

KeyStream(key, nonce, i) == (key + SumBytes(nonce, 1) + i) % ByteMod

Seal(key, nonce, pt) ==
    [i \in 1..Len(pt) |-> <<(pt[i] + KeyStream(key, nonce, i)) % ByteMod>>]

Open(key, nonce, ct) ==
    [i \in 1..Len(ct) |->
        (ct[i][1] + ByteMod - KeyStream(key, nonce, i)) % ByteMod]

\* The 16 tag bytes: the first carries the MAC term over (key, nonce,
\* ciphertext), the others are fixed; all 16 are compared on open.
Tag(key, nonce, ct) ==
    [i \in 1..TagLen |-> IF i = 1 THEN <<key, nonce, ct>> ELSE <<0>>]

Nonce(v) == [i \in 1..NonceLen |-> <<v>>]

\* nonce(12) || ciphertext || tag(16)
encrypt_data(master, data, user_key, nonce) ==
    LET key == derive_encryption_key(master, user_key)
        ct == Seal(key, nonce, data)
    IN nonce \o ct \o Tag(key, nonce, ct)

\* decrypt_data that does not verify the tag
decrypt_data_NoAuth(master, encrypted_data, user_key) ==
    IF Len(encrypted_data) < MinEncryptedLen
    THEN [ok |-> FALSE, bytes |-> <<>>]
    ELSE LET key == derive_encryption_key(master, user_key)
             nonce == SubSeq(encrypted_data, 1, NonceLen)
             n == Len(encrypted_data)
             ct == SubSeq(encrypted_data, NonceLen + 1, n - TagLen)
         IN [ok |-> TRUE, bytes |-> Open(key, nonce, ct)]

decrypt_data(master, encrypted_data, user_key) ==
    IF Len(encrypted_data) < MinEncryptedLen
    THEN [ok |-> FALSE, bytes |-> <<>>]
    ELSE LET key == derive_encryption_key(master, user_key)
             nonce == SubSeq(encrypted_data, 1, NonceLen)
             n == Len(encrypted_data)
             ct == SubSeq(encrypted_data, NonceLen + 1, n - TagLen)
             tag == SubSeq(encrypted_data, n - TagLen + 1, n)
         IN IF tag = Tag(key, nonce, ct)
            THEN [ok |-> TRUE, bytes |-> Open(key, nonce, ct)]
            ELSE [ok |-> FALSE, bytes |-> <<>>]

(* ------------------------------- state -------------------------------- *)
VARIABLES
    metadata,     \* StorageIndex.metadata: key -> StorageMetadata
    key_to_path,  \* StorageIndex.key_to_path: key -> file path
    files,        \* data files in the storage directory: path -> bytes
    snapshot,     \* index.json: [exists, metadata]
    crypto_key,   \* StorageService.crypto_key (contents of .master_key)
    now,          \* SystemTime::now() in seconds
    origin,       \* history: key -> the arguments of the store that made it
    damage,       \* history: path -> how the file was modified from outside
    faults,       \* history: number of calls that an I/O failure made fail
    gone,         \* history: keys whose delete succeeded, until a store does
    poisoned,     \* the index RwLock is poisoned
    key_file,     \* the .master_key file: [exists, len, key]
    pc,           \* thread -> where its call stands
    call          \* thread -> its current or last call: [op, key, res, rival]

\* what the single-caller actions leave alone
ext == <<poisoned, key_file, pc, call>>

vars == <<metadata, key_to_path, files, snapshot, crypto_key, now,
          origin, damage, faults, gone, poisoned, key_file, pc, call>>

EmptyMap == [k \in {} |-> 0]

Put(f, k, v) == [x \in DOMAIN f \cup {k} |-> IF x = k THEN v ELSE f[x]]
Del(f, k) == [x \in DOMAIN f \ {k} |-> f[x]]

\* the service and its storage directory as one value
State(m, k2p, f, snap, ck, t, p) ==
    [metadata |-> m, key_to_path |-> k2p, files |-> f, snapshot |-> snap,
     crypto_key |-> ck, now |-> t, poisoned |-> p]

Cur == State(metadata, key_to_path, files, snapshot, crypto_key, now, poisoned)

\* the callers of the service
Threads == {1, 2}

KeyLen == 32

\* a .master_key file of len bytes
KeyFile(len, key) == [exists |-> TRUE, len |-> len, key |-> key]

NoCall == [op |-> "none", key |-> EmptyKey, res |-> "none", rival |-> FALSE]

\* StorageService::new on a fresh storage directory
Init ==
    /\ metadata = EmptyMap
    /\ key_to_path = EmptyMap
    /\ files = EmptyMap
    /\ snapshot = [exists |-> FALSE, metadata |-> EmptyMap]
    /\ crypto_key = MasterKey
    /\ now = 0
    /\ origin = EmptyMap
    /\ damage = EmptyMap
    /\ faults = 0
    /\ gone = {}
    /\ poisoned = FALSE
    /\ key_file = KeyFile(KeyLen, MasterKey)
    /\ pc = [t \in Threads |-> "idle"]
    /\ call = [t \in Threads |-> NoCall]

\* StorageService::save_index / StorageIndex::save_to_file
save_index(index) == [exists |-> TRUE, metadata |-> index]

\* What a call leaves behind: its result, the bytes it returns and the next
\* state; struck tells whether the I/O failure offered to it was reached.
Effect(res, out, st, struck) ==
    [res |-> res, out |-> out, st |-> st, struck |-> struck]

Fail(st, res) == Effect(res, None, st, FALSE)

(* ------------------------------- store -------------------------------- *)
enable_compression == TRUE

\* Processed with the compressed form kept but its tag not recorded
Processed_NoTag(data, compress) ==
    IF compress /\ enable_compression
    THEN LET compressed == compress_data(data) IN
         IF Len(compressed) < Len(data)
         THEN [bytes |-> compressed, compression |-> None]
         ELSE [bytes |-> data, compression |-> None]
    ELSE [bytes |-> data, compression |-> None]

\* Processed with the compressed form kept whatever its size
Processed_Always(data, compress) ==
    IF compress /\ enable_compression
    THEN [bytes |-> compress_data(data), compression |-> Some("Lz4")]
    ELSE [bytes |-> data, compression |-> None]

\* (processed_data, compression_type) of store_data
Processed(data, compress) ==
    IF compress /\ enable_compression
    THEN LET compressed == compress_data(data) IN
         IF Len(compressed) < Len(data)
         THEN [bytes |-> compressed, compression |-> Some("Lz4")]
         ELSE [bytes |-> data, compression |-> None]
    ELSE [bytes |-> data, compression |-> None]

\* NewMetadata that counts the store as the first access
NewMetadata_Counted(key, data, proc, t) ==
    [key |-> key,
     size |-> Len(data),
     compressed_size |->
        IF IsSome(proc.compression) THEN Some(Len(proc.bytes)) ELSE None,
     created_at |-> t,
     accessed_at |-> t,
     modified_at |-> t,
     compression |-> proc.compression,
     encryption |-> TRUE,
     hash |-> Sha256(data),
     access_count |-> 1]

\* the StorageMetadata that store_data creates
NewMetadata(key, data, proc, t) ==
    [key |-> key,
     size |-> Len(data),
     compressed_size |->
        IF IsSome(proc.compression) THEN Some(Len(proc.bytes)) ELSE None,
     created_at |-> t,
     accessed_at |-> t,
     modified_at |-> t,
     compression |-> proc.compression,
     encryption |-> TRUE,
     hash |-> Sha256(data),
     access_count |-> 0]

StoreFaults == {"create_file", "write_file", "save_index"}

\* ExceedsLimit off by one
ExceedsLimit_Geq(data) == Len(data) >= max_file_size

\* data.len() > self.max_file_size
ExceedsLimit(data) == Len(data) > max_file_size

\* ContainsKey that never finds the key
ContainsKey_Never(index, key) == FALSE

\* index.metadata.contains_key(key)
ContainsKey(index, key) == key \in DOMAIN index

StoreData(st, key, data, secret, compress, nonce, fault) ==
    LET file_path == key_to_file_path(key)
        proc == Processed(data, compress)
        encrypted_data == encrypt_data(st.crypto_key, proc.bytes, secret, nonce)
        index == Put(st.metadata, key, NewMetadata(key, data, proc, st.now))
        paths == Put(st.key_to_path, key, file_path)
        stored == Put(st.files, file_path, encrypted_data)
    IN
    IF key = EmptyKey THEN Fail(st, "InvalidKey")
    ELSE IF ExceedsLimit(data) THEN Fail(st, "SizeLimitExceeded")
    ELSE IF st.poisoned THEN Fail(st, "LockPoisoned")
    ELSE IF ContainsKey(st.metadata, key) THEN Fail(st, "AlreadyExists")
    ELSE IF fault = "create_file" THEN
        \* fs::write fails before the file is created or truncated
        Effect("IOError", None, st, TRUE)
    ELSE IF fault = "write_file" THEN
        \* fs::write fails after the file was created or truncated
        Effect("IOError", None,
               [st EXCEPT !.files = Put(st.files, file_path, <<>>)], TRUE)
    ELSE IF fault = "save_index" THEN
        Effect("IOError", None,
               [st EXCEPT !.metadata = index, !.key_to_path = paths,
                          !.files = stored], TRUE)
    ELSE
        Effect("Ok", None,
               [st EXCEPT !.metadata = index, !.key_to_path = paths,
                          !.files = stored, !.snapshot = save_index(index)],
               FALSE)

(* ------------------------------ retrieve ------------------------------ *)
RetrieveFaults == {"read_file", "save_index"}

\* Pipeline without the hash comparison
Pipeline_NoVerify(master, meta, encrypted_data, secret) ==
    LET dec == decrypt_data(master, encrypted_data, secret) IN
    IF ~dec.ok THEN [res |-> "DecryptionFailed", bytes |-> <<>>]
    ELSE LET orig == IF IsSome(meta.compression)
                     THEN decompress_data(dec.bytes)
                     ELSE [ok |-> TRUE, bytes |-> dec.bytes] IN
    IF ~orig.ok THEN [res |-> "DecompressionFailed", bytes |-> <<>>]
    ELSE [res |-> "Ok", bytes |-> orig.bytes]

\* The pipeline of retrieve_data after the file was read: decrypt,
\* decompress, verify.  Yields the error kind or the original bytes.
Pipeline(master, meta, encrypted_data, secret) ==
    LET dec == decrypt_data(master, encrypted_data, secret) IN
    IF ~dec.ok THEN [res |-> "DecryptionFailed", bytes |-> <<>>]
    ELSE LET orig == IF IsSome(meta.compression)
                     THEN decompress_data(dec.bytes)
                     ELSE [ok |-> TRUE, bytes |-> dec.bytes] IN
    IF ~orig.ok THEN [res |-> "DecompressionFailed", bytes |-> <<>>]
    ELSE IF Sha256(orig.bytes) # meta.hash
    THEN [res |-> "IntegrityViolation", bytes |-> <<>>]
    ELSE [res |-> "Ok", bytes |-> orig.bytes]

\* RetrieveData that counts the access before it reads the file
RetrieveData_CountFirst(st, key, secret, fault) ==
    IF key = EmptyKey THEN Fail(st, "InvalidKey")
    ELSE IF st.poisoned THEN Fail(st, "LockPoisoned")
    ELSE IF key \notin DOMAIN st.key_to_path \/ key \notin DOMAIN st.metadata
    THEN Fail(st, "NotFound")
    ELSE LET index == [st.metadata EXCEPT ![key].accessed_at = st.now,
                                          ![key].access_count = @ + 1]
             counted == [st EXCEPT !.metadata = index]
    IN
    IF st.key_to_path[key] \notin DOMAIN st.files
    THEN Fail(counted, "IOError")
    ELSE IF fault = "read_file" THEN Effect("IOError", None, counted, TRUE)
    ELSE LET p == Pipeline(st.crypto_key, st.metadata[key],
                           st.files[st.key_to_path[key]], secret)
    IN
    IF p.res # "Ok" THEN Fail(counted, p.res)
    ELSE IF fault = "save_index" THEN
        Effect("IOError", None, counted, TRUE)
    ELSE
        Effect("Ok", Some(p.bytes),
               [st EXCEPT !.metadata = index, !.snapshot = save_index(index)],
               FALSE)

\* retrieve_data
RetrieveData(st, key, secret, fault) ==
    IF key = EmptyKey THEN Fail(st, "InvalidKey")
    ELSE IF st.poisoned THEN Fail(st, "LockPoisoned")
    ELSE IF key \notin DOMAIN st.key_to_path \/ key \notin DOMAIN st.metadata
    THEN Fail(st, "NotFound")
    ELSE IF st.key_to_path[key] \notin DOMAIN st.files
    THEN Fail(st, "IOError")
    ELSE IF fault = "read_file" THEN Effect("IOError", None, st, TRUE)
    ELSE LET p == Pipeline(st.crypto_key, st.metadata[key],
                           st.files[st.key_to_path[key]], secret)
             index == [st.metadata EXCEPT ![key].accessed_at = st.now,
                                          ![key].access_count = @ + 1]
    IN
    IF p.res # "Ok" THEN Fail(st, p.res)
    ELSE IF fault = "save_index" THEN
        Effect("IOError", None, [st EXCEPT !.metadata = index], TRUE)
    ELSE
        Effect("Ok", Some(p.bytes),
               [st EXCEPT !.metadata = index, !.snapshot = save_index(index)],
               FALSE)

(* ------------------------------- delete ------------------------------- *)
DeleteFaults == {"remove_file", "save_index"}

DeleteData(st, key, fault) ==
    LET index == Del(st.metadata, key)
        paths == Del(st.key_to_path, key)
        has_file == key \in DOMAIN st.key_to_path
                    /\ st.key_to_path[key] \in DOMAIN st.files
        removed == IF has_file THEN Del(st.files, st.key_to_path[key])
                   ELSE st.files
    IN
    IF key = EmptyKey THEN Fail(st, "InvalidKey")
    ELSE IF st.poisoned THEN Fail(st, "LockPoisoned")
    ELSE IF key \notin DOMAIN st.metadata THEN Fail(st, "NotFound")
    ELSE IF has_file /\ fault = "remove_file" THEN
        \* the entry is already out of the index when fs::remove_file fails
        Effect("IOError", None,
               [st EXCEPT !.metadata = index, !.key_to_path = paths], TRUE)
    ELSE IF fault = "save_index" THEN
        Effect("IOError", None,
               [st EXCEPT !.metadata = index, !.key_to_path = paths,
                          !.files = removed], TRUE)
    ELSE
        Effect("Ok", None,
               [st EXCEPT !.metadata = index, !.key_to_path = paths,
                          !.files = removed, !.snapshot = save_index(index)],
               FALSE)

\* GetMetadata that counts the access as retrieve_data does
GetMetadata_Touch(st, key) ==
    IF st.poisoned THEN Fail(st, "LockPoisoned")
    ELSE IF key \in DOMAIN st.metadata
    THEN LET touched == [st.metadata[key] EXCEPT !.accessed_at = st.now,
                                                 !.access_count = @ + 1]
         IN Effect("Ok", Some(touched),
                   [st EXCEPT !.metadata = Put(st.metadata, key, touched)],
                   FALSE)
    ELSE Fail(st, "NotFound")

\* get_metadata and list_keys read the index
GetMetadata(st, key) ==
    IF st.poisoned THEN Fail(st, "LockPoisoned")
    ELSE IF key \in DOMAIN st.metadata
    THEN Effect("Ok", Some(st.metadata[key]), st, FALSE)
    ELSE Fail(st, "NotFound")

ListKeys(st) == DOMAIN st.metadata

(* ------------------------------ actions ------------------------------- *)
\* A call takes the service from the current state to its effect.
Apply(fault, e) ==
    /\ (fault = "none") = ~e.struck
    /\ e.struck => faults < MaxFaults
    /\ \A k \in DOMAIN e.st.metadata :
          e.st.metadata[k].access_count <= MaxAccess
    /\ metadata' = e.st.metadata
    /\ key_to_path' = e.st.key_to_path
    /\ files' = e.st.files
    /\ snapshot' = e.st.snapshot
    /\ crypto_key' = e.st.crypto_key
    /\ now' = e.st.now
    /\ faults' = IF e.struck THEN faults + 1 ELSE faults
    /\ UNCHANGED ext

store_data(key, data, secret, compress, nonce, fault) ==
    \E e \in { StoreData(Cur, key, data, secret, compress, nonce, fault) } :
    LET path == key_to_file_path(key)
        rewritten == path \in DOMAIN e.st.files
                     /\ (path \notin DOMAIN files
                         \/ e.st.files[path] # files[path])
    IN
    /\ Apply(fault, e)
    /\ gone' = IF e.res = "Ok" THEN gone \ {key} ELSE gone
    /\ origin' = IF key \in DOMAIN e.st.metadata /\ key \notin DOMAIN metadata
                 THEN Put(origin, key, [data |-> data, secret |-> secret])
                 ELSE origin
    /\ damage' = IF rewritten THEN Del(damage, path) ELSE damage

retrieve_data(key, secret, fault) ==
    \E e \in { RetrieveData(Cur, key, secret, fault) } :
    /\ Apply(fault, e)
    /\ UNCHANGED <<origin, damage, gone>>

delete_data(key, fault) ==
    \E e \in { DeleteData(Cur, key, fault) } :
    /\ Apply(fault, e)
    /\ gone' = IF e.res = "Ok" THEN gone \cup {key} ELSE gone
    /\ origin' = [k \in DOMAIN origin \cap DOMAIN e.st.metadata |-> origin[k]]
    /\ damage' = [p \in DOMAIN damage \cap DOMAIN e.st.files |-> damage[p]]

Store ==
    \E key \in KeyArgs, data \in DataSet, secret \in Secrets,
       compress \in BOOLEAN, v \in NonceVals :
        store_data(key, data, secret, compress, Nonce(v), "none")

Retrieve ==
    \E key \in KeyArgs, secret \in Secrets : retrieve_data(key, secret, "none")

Delete == \E key \in KeyArgs : delete_data(key, "none")

StoreFault ==
    \E key \in Keys, data \in DataSet, secret \in Secrets,
       compress \in BOOLEAN, v \in NonceVals, fault \in StoreFaults :
        store_data(key, data, secret, compress, Nonce(v), fault)

RetrieveFault ==
    \E key \in Keys, secret \in Secrets, fault \in RetrieveFaults :
        retrieve_data(key, secret, fault)

DeleteFault ==
    \E key \in Keys, fault \in DeleteFaults : delete_data(key, fault)

\* SystemTime advances
Tick ==
    /\ now < MaxTime
    /\ now' = now + 1
    /\ UNCHANGED <<metadata, key_to_path, files, snapshot, crypto_key,
                   origin, damage, faults, gone>>
    /\ UNCHANGED ext

(* ------------------------- outside modification ---------------------- *)
\* One byte of a file changed: a plain byte becomes another plain byte, a
\* byte of a MAC term becomes a plain byte.
FlipByte(byte, delta) ==
    IF Len(byte) = 1 THEN <<(byte[1] + delta) % ByteMod>> ELSE <<delta>>

FlipAt(bytes, pos, delta) ==
    [bytes EXCEPT ![pos] = FlipByte(@, delta)]

Truncated(bytes, n) == SubSeq(bytes, 1, n)

FlipDeltas == 1..(ByteMod - 1)

\* the first and last byte of the nonce, of the ciphertext and of the tag
Borders(bytes) ==
    { 1, NonceLen, NonceLen + 1, Len(bytes) - TagLen,
      Len(bytes) - TagLen + 1, Len(bytes) } \cap (1..Len(bytes))

Tampered(path, bytes, kind) ==
    /\ damage = EmptyMap
    /\ files' = [files EXCEPT ![path] = bytes]
    /\ damage' = Put(damage, path, kind)
    /\ UNCHANGED <<metadata, key_to_path, snapshot, crypto_key, now,
                   origin, faults, gone>>
    /\ UNCHANGED ext

Flip ==
    \E path \in DOMAIN files :
        \E pos \in Borders(files[path]) :
            Tampered(path, FlipAt(files[path], pos, 1), "flip")

Truncate ==
    \E path \in DOMAIN files :
        \E n \in {0, MinEncryptedLen - 1, Len(files[path]) - 1} :
            /\ n >= 0
            /\ Tampered(path, Truncated(files[path], n), "truncate")

Copy ==
    \E src \in DOMAIN files, dst \in DOMAIN files :
        /\ files[src] # files[dst]
        /\ Tampered(dst, files[src], "copy")

(* ---------------------------- specification --------------------------- *)
\* the service on a reliable disk, with the clock advancing
Next == Store \/ Retrieve \/ Delete \/ Tick

Spec == Init /\ [][Next]_vars

\* the service on a disk whose operations may fail
NextFault ==
    \/ Store \/ Retrieve \/ Delete
    \/ StoreFault \/ RetrieveFault \/ DeleteFault

SpecFault == Init /\ [][NextFault]_vars

\* the service on a disk that somebody else can write to
NextTamper == Store \/ Retrieve \/ Delete \/ Flip \/ Truncate \/ Copy

SpecTamper == Init /\ [][NextTamper]_vars

(* ------------------------------ properties ---------------------------- *)
AnyStoreFault == StoreFaults \cup {"none"}

\* the state with the bytes of one data file replaced
WithFile(path, bytes) == [Cur EXCEPT !.files = Put(files, path, bytes)]

\* C1: round trip.  In every reachable state, for every absent non-empty
\* key, every blob up to the size limit (the empty one included), every
\* secret and both values of the compress flag, store succeeds and a
\* retrieve of the same key with the same secret right after it returns
\* exactly the blob that was stored.
C1_RoundTrip ==
    \A key \in Keys \ DOMAIN metadata, data \in ProbeData,
       secret \in ProbeSecrets, compress \in BOOLEAN, v \in NonceVals :
        Len(data) <= max_file_size =>
            \A s \in { StoreData(Cur, key, data, secret, compress,
                                 Nonce(v), "none") } :
            \A r \in { RetrieveData(s.st, key, secret, "none") } :
                /\ s.res = "Ok"
                /\ r.res = "Ok"
                /\ r.out = Some(data)

\* a record stored in compressed form has been retrieved at a later time,
\* and retrieving it again returns the blob it was stored with
C1_Witness ==
    \E key \in DOMAIN metadata :
        /\ IsSome(metadata[key].compression)
        /\ metadata[key].access_count >= 1
        /\ metadata[key].accessed_at > metadata[key].created_at
        /\ RetrieveData(Cur, key, origin[key].secret, "none").out
              = Some(origin[key].data)

\* C2: wrong-secret rejection.  In every reachable state, for every key in
\* the index, retrieve with any secret other than the one it was stored with
\* fails with DecryptionFailed, returns no bytes and changes nothing.
C2_WrongSecret ==
    \A key \in DOMAIN metadata :
        \A s2 \in ProbeSecrets \ {origin[key].secret} :
            \A r \in { RetrieveData(Cur, key, s2, "none") } :
                /\ r.res = "DecryptionFailed"
                /\ r.out = None
                /\ r.st = Cur

\* a key that has been retrieved with its own secret rejects another one
C2_Witness ==
    \E key \in DOMAIN metadata :
        /\ metadata[key].access_count >= 1
        /\ \E s2 \in Secrets \ {origin[key].secret} :
              RetrieveData(Cur, key, s2, "none").res = "DecryptionFailed"

\* C3: no overwrite.  In every reachable state, store on a key that is in
\* the index fails, with AlreadyExists whenever the blob is within the size
\* limit (the size check comes first), and leaves the index, the data files
\* and the snapshot as they were; retrieve with the first secret still
\* returns the first blob.
C3_NoOverwrite ==
    \A key \in DOMAIN metadata :
        /\ \A data \in ProbeData, secret \in Secrets, compress \in BOOLEAN,
              v \in NonceVals, fault \in AnyStoreFault :
              \A e \in { StoreData(Cur, key, data, secret, compress,
                                   Nonce(v), fault) } :
                  /\ e.res = IF Len(data) <= max_file_size
                             THEN "AlreadyExists" ELSE "SizeLimitExceeded"
                  /\ e.st = Cur
                  /\ ~e.struck
        /\ RetrieveData(Cur, key, origin[key].secret, "none").out
              = Some(origin[key].data)

\* a stored key on which a second store with another blob is refused
C3_Witness ==
    \E key \in DOMAIN metadata :
        /\ origin[key].data # <<>>
        /\ StoreData(Cur, key, <<>>, origin[key].secret, FALSE,
                     Nonce(0), "none").res = "AlreadyExists"

\* retrieve of key, with its data file holding bytes, is refused
Rejected(key, path, bytes, secret) ==
    \A r \in { RetrieveData(WithFile(path, bytes), key, secret, "none") } :
        /\ r.res = "DecryptionFailed"
        /\ r.out = None

\* C4: tamper detection.  In every reachable state, for every key in the
\* index whose data file is as store wrote it: with any single byte of the
\* file changed (nonce, ciphertext or tag), or with the file cut to fewer
\* than 28 bytes, retrieve with the right secret fails with DecryptionFailed
\* and returns no bytes; and while a file is so modified on disk, retrieve
\* of its key fails that way with every secret.
C4_TamperDetected ==
    \A key \in DOMAIN metadata :
        LET path == key_to_path[key] IN
        IF path \notin DOMAIN damage
        THEN /\ \A pos \in 1..Len(files[path]), delta \in FlipDeltas :
                    Rejected(key, path, FlipAt(files[path], pos, delta),
                             origin[key].secret)
             /\ \A n \in 0..(MinEncryptedLen - 1) :
                    n <= Len(files[path]) =>
                        Rejected(key, path, Truncated(files[path], n),
                                 origin[key].secret)
        ELSE damage[path] \in {"flip", "truncate"} =>
                \A secret \in ProbeSecrets :
                    Rejected(key, path, files[path], secret)

\* the data file of a key in the index has one byte changed on disk, and
\* retrieve with the key's own secret fails with DecryptionFailed
C4_Witness ==
    \E key \in DOMAIN metadata :
        /\ key_to_path[key] \in DOMAIN damage
        /\ damage[key_to_path[key]] = "flip"
        /\ Len(files[key_to_path[key]]) > MinEncryptedLen
        /\ RetrieveData(Cur, key, origin[key].secret, "none").res
              = "DecryptionFailed"

\* C5: size bound.  In every reachable state, store of a non-empty key with
\* a blob longer than max_file_size fails with SizeLimitExceeded and leaves
\* the index, the data files and the snapshot as they were; a blob of
\* exactly max_file_size is not refused for its size, and is stored when the
\* key is absent.
C5_SizeBound ==
    \A key \in Keys, data \in ProbeData, secret \in Secrets,
       compress \in BOOLEAN, v \in NonceVals, fault \in AnyStoreFault :
        \A e \in { StoreData(Cur, key, data, secret, compress,
                             Nonce(v), fault) } :
            /\ Len(data) > max_file_size =>
                  /\ e.res = "SizeLimitExceeded"
                  /\ e.st = Cur
                  /\ ListKeys(e.st) = ListKeys(Cur)
                  /\ key_to_file_path(key) \in DOMAIN e.st.files
                        <=> key_to_file_path(key) \in DOMAIN files
            /\ Len(data) = max_file_size =>
                  /\ e.res # "SizeLimitExceeded"
                  /\ (key \notin DOMAIN metadata /\ fault = "none") =>
                        /\ e.res = "Ok"
                        /\ key \in ListKeys(e.st)
                        /\ e.st.metadata[key].size = max_file_size

\* a blob of exactly the limit is stored under one key, and a blob one byte
\* longer is refused for the other, absent, key
C5_Witness ==
    /\ \E key \in DOMAIN metadata : metadata[key].size = max_file_size
    /\ \E key \in Keys \ DOMAIN metadata :
          StoreData(Cur, key, Run(1, max_file_size + 1), 1, FALSE,
                    Nonce(0), "none").res = "SizeLimitExceeded"

\* C6: delete atomicity.  Whenever a key leaves the index, its data file
\* leaves the disk in the same transition: a delete whose file removal
\* fails keeps the key's entry.
C6_DeleteAtomic ==
    [][\A key \in Keys :
          (key \in DOMAIN metadata /\ key \notin DOMAIN metadata')
              => key_to_file_path(key) \notin DOMAIN files']_vars

\* C7: delete finality.  A key whose delete succeeded is absent from
\* list_keys and get_metadata, and every retrieve of it fails with NotFound,
\* until a later store of the key succeeds; delete of an absent key fails
\* with NotFound and changes nothing.
C7_DeleteFinality ==
    /\ \A key \in gone :
          /\ key \notin ListKeys(Cur)
          /\ GetMetadata(Cur, key).res = "NotFound"
          /\ \A secret \in ProbeSecrets :
                RetrieveData(Cur, key, secret, "none").res = "NotFound"
    /\ \A key \in Keys \ DOMAIN metadata, fault \in DeleteFaults \cup {"none"} :
          \A e \in { DeleteData(Cur, key, fault) } :
              e.res = "NotFound" /\ e.st = Cur

\* the hash check of retrieve_data is reached and fails
HashMismatch(key, secret) ==
    LET dec == decrypt_data(crypto_key, files[key_to_path[key]], secret)
        orig == IF IsSome(metadata[key].compression)
                THEN decompress_data(dec.bytes)
                ELSE [ok |-> TRUE, bytes |-> dec.bytes]
    IN dec.ok /\ orig.ok /\ Sha256(orig.bytes) # metadata[key].hash

\* C8: content hash.  In every reachable state, the hash of every index
\* entry is SHA-256 of the blob given to store (before compression); every
\* retrieve that succeeds returns bytes whose SHA-256 is the recorded hash;
\* and a retrieve whose decrypted and decompressed bytes have another hash
\* fails with IntegrityViolation, returns no bytes and changes nothing.
C8_ContentHash ==
    \A key \in DOMAIN metadata :
        /\ metadata[key].hash = Sha256(origin[key].data)
        /\ \A secret \in ProbeSecrets :
              \A r \in { RetrieveData(Cur, key, secret, "none") } :
                  /\ r.res = "Ok" =>
                        /\ IsSome(r.out)
                        /\ Sha256(r.out[1]) = metadata[key].hash
                  /\ HashMismatch(key, secret) =>
                        /\ r.res = "IntegrityViolation"
                        /\ r.res # "DecryptionFailed"
                        /\ r.out = None
                        /\ r.st = Cur

\* a key stored in compressed form whose data file was replaced by another
\* record's file: it decrypts, and retrieve fails with IntegrityViolation
C8_Witness ==
    \E key \in DOMAIN metadata :
        /\ key_to_path[key] \in DOMAIN damage
        /\ damage[key_to_path[key]] = "copy"
        /\ HashMismatch(key, origin[key].secret)
        /\ RetrieveData(Cur, key, origin[key].secret, "none").res
              = "IntegrityViolation"

\* C9: compression policy.  In every reachable state every index entry has
\* a compression tag exactly when it has a compressed_size, which then is
\* the length of the compressed form and smaller than size; and a store that
\* succeeds records a tag exactly when compression was requested and the
\* compressed form is strictly smaller than the blob.
C9_CompressionPolicy ==
    /\ \A key \in DOMAIN metadata :
          LET m == metadata[key]
              data == origin[key].data
          IN /\ m.size = Len(data)
             /\ IsSome(m.compression) <=> IsSome(m.compressed_size)
             /\ IsSome(m.compressed_size) =>
                   /\ m.compressed_size[1] < m.size
                   /\ m.compressed_size[1] = Len(compress_data(data))
    /\ \A key \in Keys \ DOMAIN metadata, data \in ProbeData,
          compress \in BOOLEAN, v \in NonceVals :
          Len(data) <= max_file_size =>
              \A e \in { StoreData(Cur, key, data, 1, compress,
                                   Nonce(v), "none") } :
                  /\ e.res = "Ok"
                  /\ IsSome(e.st.metadata[key].compression)
                        <=> (compress /\ Len(compress_data(data)) < Len(data))

\* one record is stored compressed, another one uncompressed
C9_Witness ==
    /\ \E key \in DOMAIN metadata :
          /\ IsSome(metadata[key].compression)
          /\ metadata[key].compressed_size[1] < metadata[key].size
    /\ \E key \in DOMAIN metadata : ~IsSome(metadata[key].compression)

\* the fields of an index entry that no call may change
Fixed(m) ==
    <<m.size, m.hash, m.compression, m.compressed_size,
      m.created_at, m.modified_at>>

\* C10: key lifecycle.  A key enters the index only by a store that
\* succeeds and leaves it only by a delete that succeeds (a call that an I/O
\* failure makes fail moves no key), and while a key stays in the index its
\* size, hash, compression tag, compressed_size, created_at and modified_at
\* do not change.
C10_Lifecycle ==
    [][\A key \in Keys :
          /\ (key \in DOMAIN metadata) # (key \in DOMAIN metadata')
                => faults' = faults
          /\ (key \in DOMAIN metadata /\ key \in DOMAIN metadata')
                => Fixed(metadata'[key]) = Fixed(metadata[key])]_vars

(* ------------------------- list, stats, optimize ---------------------- *)
\* list_keys as a call
ListKeysCall(st) ==
    IF st.poisoned THEN Fail(st, "LockPoisoned")
    ELSE Effect("Ok", Some(ListKeys(st)), st, FALSE)

RECURSIVE SumOver(_, _)
\* the sum of f[x] over the elements x of S
SumOver(f, S) ==
    IF S = {} THEN 0
    ELSE LET x == CHOOSE y \in S : TRUE IN f[x] + SumOver(f, S \ {x})

\* StoredSize that counts nothing for an uncompressed record
StoredSize_OrZero(m) ==
    IF IsSome(m.compressed_size) THEN m.compressed_size[1] ELSE 0

\* m.compressed_size.unwrap_or(m.size)
StoredSize(m) ==
    IF IsSome(m.compressed_size) THEN m.compressed_size[1] ELSE m.size

\* the f64 quotient a / b, kept as the pair it is the quotient of
Ratio(a, b) == <<a, b>>

\* the quotient is 1.0: a / a is exact in f64 for every a > 0
IsOne(r) == r[1] = r[2]

\* total_files, total_size, total_compressed_size, compression_ratio
Usage(index) ==
    LET total_size == SumOver([k \in DOMAIN index |-> index[k].size],
                              DOMAIN index)
        total_compressed_size ==
            SumOver([k \in DOMAIN index |-> StoredSize(index[k])],
                    DOMAIN index)
    IN [total_files |-> Cardinality(DOMAIN index),
        total_size |-> total_size,
        total_compressed_size |-> total_compressed_size,
        compression_ratio |->
            IF total_size > 0 THEN Ratio(total_compressed_size, total_size)
            ELSE Ratio(1, 1)]

\* get_usage_stats; the figures of the file system itself are left out
GetUsageStats(st) ==
    IF st.poisoned THEN Fail(st, "LockPoisoned")
    ELSE Effect("Ok", Some(Usage(st.metadata)), st, FALSE)

\* a data file whose name is the hash of the key of some index entry
HasMetadata(index, path) ==
    \E k \in DOMAIN index : key_to_file_path(index[k].key) = path

\* Orphans that takes every data file for an orphan
Orphans_All(st) == DOMAIN st.files

\* Orphans that finds none
Orphans_None(st) == {}

\* the .dat files of the storage directory without an index entry
Orphans(st) == { p \in DOMAIN st.files : ~HasMetadata(st.metadata, p) }

RecompressAccess == 10
SmallFileSize == 1024
SmallFileAccess == 5
ArchiveAge == 7776000
ArchiveAccess == 2

\* cleanup_orphaned_files: the bytes reclaimed and the files left
CleanupOrphanedFiles(st) ==
    LET orphans == Orphans(st) IN
    [bytes_reclaimed |->
        SumOver([p \in orphans |-> Len(st.files[p])], orphans),
     files |-> [p \in DOMAIN st.files \ orphans |-> st.files[p]]]

\* the candidates that optimize_compression, consolidate_small_files and
\* archive_old_files count
Advice(st) ==
    LET index == st.metadata IN
    [compression_improved |->
        Cardinality({ k \in DOMAIN index :
            index[k].access_count > RecompressAccess
            /\ ~IsSome(index[k].compression) }),
     files_processed |->
        Cardinality({ k \in DOMAIN index :
            index[k].size < SmallFileSize
            /\ index[k].access_count < SmallFileAccess }),
     files_archived |->
        Cardinality({ k \in DOMAIN index :
            st.now - index[k].accessed_at > ArchiveAge
            /\ index[k].access_count < ArchiveAccess })]

\* OptimizeStorage that goes on when the lock is poisoned
OptimizeStorage_NoPoison(st) ==
    LET cleaned == CleanupOrphanedFiles(st)
        advice == Advice(st)
    IN Effect("Ok",
              Some([bytes_reclaimed |-> cleaned.bytes_reclaimed,
                    compression_improved |-> advice.compression_improved,
                    files_processed |-> advice.files_processed,
                    files_archived |-> advice.files_archived]),
              [st EXCEPT !.files = cleaned.files], FALSE)

\* optimize_storage by a single caller
OptimizeStorage(st) ==
    IF st.poisoned THEN Fail(st, "LockPoisoned")
    ELSE LET cleaned == CleanupOrphanedFiles(st)
             advice == Advice(st)
         IN Effect("Ok",
                   Some([bytes_reclaimed |-> cleaned.bytes_reclaimed,
                         compression_improved |-> advice.compression_improved,
                         files_processed |-> advice.files_processed,
                         files_archived |-> advice.files_archived]),
                   [st EXCEPT !.files = cleaned.files], FALSE)

\* a call that returns what it found and leaves the history alone, but for
\* the marks on files that are no longer there
Quiet(e) ==
    /\ Apply("none", e)
    /\ damage' = [p \in DOMAIN damage \cap DOMAIN e.st.files |-> damage[p]]
    /\ UNCHANGED <<origin, gone>>

get_metadata(key) == \E e \in { GetMetadata(Cur, key) } : Quiet(e)

list_keys == \E e \in { ListKeysCall(Cur) } : Quiet(e)

get_usage_stats == \E e \in { GetUsageStats(Cur) } : Quiet(e)

optimize_storage == \E e \in { OptimizeStorage(Cur) } : Quiet(e)

GetMeta == \E key \in KeyArgs : get_metadata(key)

\* the service on a failing disk, with every call of its interface
NextMaint ==
    \/ Store \/ Retrieve \/ Delete
    \/ StoreFault \/ RetrieveFault \/ DeleteFault
    \/ GetMeta \/ list_keys \/ get_usage_stats \/ optimize_storage

SpecMaint == Init /\ [][NextMaint]_vars

(* ----------------------------- concurrency --------------------------- *)
\* Callers on several threads.  A call is a sequence of steps; each step
\* that needs the index lock waits until the RwLock grants it.
Writers == {"store", "retrieve", "delete"}

\* the keys the threads contend for
ConcKeys == {1}

\* what thread t stores, and the secret it uses
ConcData(t) == IF t = 1 THEN <<>> ELSE Run(1, max_file_size)

ConcSecret(t) == t

\* thread t holds the write guard / a read guard between two steps
HoldsWrite(t) == pc[t] \in {"writing", "reading", "removing"}

HoldsRead(t) == pc[t] \in {"stats_inner", "stats_blocked"}

\* a write lock that excludes nobody
WriteFree_Always(t) == TRUE

\* RwLock::write is granted to t: nobody else holds a guard
WriteFree(t) == \A u \in Threads \ {t} : ~HoldsWrite(u) /\ ~HoldsRead(u)

\* RwLock::read can be granted to t: nobody else holds the write guard
ReadFree(t) == \A u \in Threads \ {t} : ~HoldsWrite(u)

\* another thread has asked for the write lock and is waiting for it
WriterWaiting(t) == \E u \in Threads \ {t} : pc[u] = "lock_write"

Goto(t, stage, res) ==
    /\ pc' = [pc EXCEPT ![t] = stage]
    /\ call' = [call EXCEPT ![t].res = res]

\* the stores of key that wait for the write lock while key is absent
Rivals(t, op, key) ==
    IF op = "store" /\ key \notin DOMAIN metadata
    THEN { u \in Threads \ {t} : /\ pc[u] = "lock_write"
                                 /\ call[u].op = "store"
                                 /\ call[u].key = key }
    ELSE {}

Called(t, op, key, res, stage) ==
    /\ pc[t] = "idle"
    /\ pc' = [pc EXCEPT ![t] = stage]
    /\ call' = [u \in Threads |->
           IF u = t
           THEN [op |-> op, key |-> key, res |-> res,
                 rival |-> Rivals(t, op, key) # {}]
           ELSE IF u \in Rivals(t, op, key)
           THEN [call[u] EXCEPT !.rival = TRUE]
           ELSE call[u]]

\* store_data, retrieve_data or delete_data is called: key checked, then
\* self.index.write() is asked for
BeginWrite(t) ==
    \E op \in Writers, key \in ConcKeys :
        /\ Called(t, op, key, "pending", "lock_write")
        /\ UNCHANGED <<metadata, key_to_path, files, snapshot, crypto_key, now,
                       origin, damage, faults, gone, poisoned, key_file>>

\* store_data, lines 177-182: the lock is granted, the key is looked up
StoreCheck(t) ==
    /\ pc[t] = "lock_write" /\ call[t].op = "store"
    /\ WriteFree(t)
    /\ IF ContainsKey(metadata, call[t].key)
       THEN Goto(t, "idle", "AlreadyExists")
       ELSE Goto(t, "writing", "pending")
    /\ UNCHANGED <<metadata, key_to_path, files, snapshot, crypto_key, now,
                   origin, damage, faults, gone, poisoned, key_file>>

\* store_data, lines 184-231: the file is written, the entry inserted, the
\* guard dropped
StoreWrite(t) ==
    LET key == call[t].key
        proc == Processed(ConcData(t), TRUE)
        encrypted_data ==
            encrypt_data(crypto_key, proc.bytes, ConcSecret(t), Nonce(0))
    IN
    /\ pc[t] = "writing" /\ call[t].op = "store"
    /\ files' = Put(files, key_to_file_path(key), encrypted_data)
    /\ metadata' = Put(metadata, key, NewMetadata(key, ConcData(t), proc, now))
    /\ key_to_path' = Put(key_to_path, key, key_to_file_path(key))
    /\ origin' = Put(origin, key,
                     [data |-> ConcData(t), secret |-> ConcSecret(t)])
    /\ Goto(t, "save", "pending")
    /\ UNCHANGED <<snapshot, crypto_key, now, damage, faults, gone,
                   poisoned, key_file>>

\* retrieve_data, lines 246-252: the lock is granted, path and entry are
\* looked up
RetrieveLookup(t) ==
    /\ pc[t] = "lock_write" /\ call[t].op = "retrieve"
    /\ WriteFree(t)
    /\ IF call[t].key \in DOMAIN key_to_path /\ call[t].key \in DOMAIN metadata
       THEN Goto(t, "reading", "pending")
       ELSE Goto(t, "idle", "NotFound")
    /\ UNCHANGED <<metadata, key_to_path, files, snapshot, crypto_key, now,
                   origin, damage, faults, gone, poisoned, key_file>>

\* retrieve_data, lines 254-277: the file is read, decrypted, decompressed
\* and verified, the access is counted, the guard dropped
RetrieveRead(t) ==
    /\ pc[t] = "reading"
    /\ \E secret \in { ConcSecret(u) : u \in Threads } :
       \E e \in { RetrieveData(Cur, call[t].key, secret, "save_index") } :
          /\ \A k \in DOMAIN e.st.metadata :
                e.st.metadata[k].access_count <= ConcAccess
          /\ metadata' = e.st.metadata
          /\ IF e.struck THEN Goto(t, "save", "pending")
             ELSE Goto(t, "idle", e.res)
    /\ UNCHANGED <<key_to_path, files, snapshot, crypto_key, now,
                   origin, damage, faults, gone, poisoned, key_file>>

\* delete_data, lines 290-293: the lock is granted, the entry removed
DeleteLocked(t) ==
    /\ pc[t] = "lock_write" /\ call[t].op = "delete"
    /\ WriteFree(t)
    /\ IF call[t].key \in DOMAIN metadata
       THEN /\ metadata' = Del(metadata, call[t].key)
            /\ origin' = Del(origin, call[t].key)
            /\ Goto(t, "removing", "pending")
       ELSE /\ UNCHANGED <<metadata, origin>>
            /\ Goto(t, "idle", "NotFound")
    /\ UNCHANGED <<key_to_path, files, snapshot, crypto_key, now,
                   damage, faults, gone, poisoned, key_file>>

\* delete_data, lines 295-301: the file is removed, the guard dropped
DeleteRemove(t) ==
    LET key == call[t].key IN
    /\ pc[t] = "removing"
    /\ key_to_path' = Del(key_to_path, key)
    /\ files' = IF key \in DOMAIN key_to_path
                THEN Del(files, key_to_path[key]) ELSE files
    /\ Goto(t, "save", "pending")
    /\ UNCHANGED <<metadata, snapshot, crypto_key, now, origin, damage,
                   faults, gone, poisoned, key_file>>

\* delete_data, line 297: fs::remove_file fails and the call returns
DeleteRemoveFails(t) ==
    LET key == call[t].key IN
    /\ pc[t] = "removing"
    /\ faults < MaxFaults
    /\ key \in DOMAIN key_to_path /\ key_to_path[key] \in DOMAIN files
    /\ key_to_path' = Del(key_to_path, key)
    /\ faults' = faults + 1
    /\ Goto(t, "idle", "IOError")
    /\ UNCHANGED <<metadata, files, snapshot, crypto_key, now, origin,
                   damage, gone, poisoned, key_file>>

\* save_index after the guard was dropped: a read guard, then the snapshot
Save(t) ==
    /\ pc[t] = "save"
    /\ ReadFree(t)
    /\ snapshot' = save_index(metadata)
    /\ gone' = IF call[t].op = "delete" THEN gone \cup {call[t].key}
               ELSE IF call[t].op = "store" THEN gone \ {call[t].key}
               ELSE gone
    /\ Goto(t, "idle", "Ok")
    /\ UNCHANGED <<metadata, key_to_path, files, crypto_key, now, origin,
                   damage, faults, poisoned, key_file>>

\* get_metadata and list_keys: one read guard
ReadOnly(t) ==
    /\ ReadFree(t)
    /\ \/ \E key \in ConcKeys :
             Called(t, "get_metadata", key, GetMetadata(Cur, key).res, "idle")
       \/ Called(t, "list_keys", EmptyKey, ListKeysCall(Cur).res, "idle")
    /\ UNCHANGED <<metadata, key_to_path, files, snapshot, crypto_key, now,
                   origin, damage, faults, gone, poisoned, key_file>>

\* get_usage_stats, line 341: the read guard it keeps until it returns
StatsBegin(t) ==
    /\ ReadFree(t)
    /\ Called(t, "usage_stats", EmptyKey, "pending", "stats_inner")
    /\ UNCHANGED <<metadata, key_to_path, files, snapshot, crypto_key, now,
                   origin, damage, faults, gone, poisoned, key_file>>

\* calculate_detailed_storage_usage, line 602, reached from line 356 with
\* the first guard still held: the second read is granted
StatsInner(t) ==
    /\ pc[t] = "stats_inner"
    /\ ReadFree(t)
    /\ Goto(t, "idle", "Ok")
    /\ UNCHANGED <<metadata, key_to_path, files, snapshot, crypto_key, now,
                   origin, damage, faults, gone, poisoned, key_file>>

\* the second read is queued behind a waiting writer, as a RwLock that
\* prefers writers does; the writer waits for the first guard
StatsQueued(t) ==
    /\ pc[t] = "stats_inner"
    /\ WriterWaiting(t)
    /\ Goto(t, "stats_blocked", "pending")
    /\ UNCHANGED <<metadata, key_to_path, files, snapshot, crypto_key, now,
                   origin, damage, faults, gone, poisoned, key_file>>

\* optimize_storage, line 847: the figures before
OptimizeBegin(t) ==
    /\ ReadFree(t)
    /\ Called(t, "optimize", EmptyKey, "pending", "opt_cleanup")
    /\ UNCHANGED <<metadata, key_to_path, files, snapshot, crypto_key, now,
                   origin, damage, faults, gone, poisoned, key_file>>

\* cleanup_orphaned_files under its read guard
OptimizeCleanup(t) ==
    /\ pc[t] = "opt_cleanup"
    /\ ReadFree(t)
    /\ files' = CleanupOrphanedFiles(Cur).files
    /\ Goto(t, "opt_after", "pending")
    /\ UNCHANGED <<metadata, key_to_path, snapshot, crypto_key, now,
                   origin, damage, faults, gone, poisoned, key_file>>

\* the three counting passes and the figures after, each under a read guard
OptimizeReturn(t) ==
    /\ pc[t] = "opt_after"
    /\ ReadFree(t)
    /\ Goto(t, "idle", "Ok")
    /\ UNCHANGED <<metadata, key_to_path, files, snapshot, crypto_key, now,
                   origin, damage, faults, gone, poisoned, key_file>>

NextConc ==
    \E t \in Threads :
        \/ BeginWrite(t) \/ StoreCheck(t) \/ StoreWrite(t)
        \/ RetrieveLookup(t) \/ RetrieveRead(t)
        \/ DeleteLocked(t) \/ DeleteRemove(t) \/ DeleteRemoveFails(t)
        \/ Save(t)
        \/ ReadOnly(t)
        \/ StatsBegin(t) \/ StatsInner(t) \/ StatsQueued(t)
        \/ OptimizeBegin(t) \/ OptimizeCleanup(t) \/ OptimizeReturn(t)

SpecConc == Init /\ [][NextConc]_vars

(* ----------------------- properties of concurrency -------------------- *)
\* the data file that the store of thread t writes
StoredBy(t) ==
    encrypt_data(crypto_key, Processed(ConcData(t), TRUE).bytes,
                 ConcSecret(t), Nonce(0))

\* a and b called store on the same absent key while both waited for the lock
RivalStores(a, b) ==
    /\ call[a].op = "store" /\ call[b].op = "store"
    /\ call[a].key = call[b].key
    /\ call[a].rival /\ call[b].rival

\* w has won against l: the record is the one w stored
Won(w, l) ==
    LET key == call[w].key IN
    /\ key \in DOMAIN metadata
    /\ metadata[key] =
          NewMetadata(key, ConcData(w), Processed(ConcData(w), TRUE), now)
    /\ files[key_to_file_path(key)] = StoredBy(w)
    /\ RetrieveData(Cur, key, ConcSecret(w), "none").out = Some(ConcData(w))

\* C11: concurrent stores of one key.  When two threads call store on the
\* same absent key and both wait for the lock, they never both pass the
\* existence check and never both succeed; the one that fails gets
\* AlreadyExists and the data file is then the one the other wrote; when both
\* have returned exactly one has Ok, the other AlreadyExists, and metadata,
\* data file and retrieve with the winner's secret give the winner's blob.
C11_ConcurrentStores ==
    \A a \in Threads : \A b \in Threads \ {a} :
        RivalStores(a, b) =>
            /\ ~(pc[a] \in {"writing", "save"} /\ pc[b] \in {"writing", "save"})
            /\ ~(call[a].res = "Ok" /\ call[b].res = "Ok")
            /\ call[b].res \in {"pending", "Ok", "AlreadyExists"}
            /\ call[b].res = "AlreadyExists" => Won(a, b)
            /\ (pc[a] = "idle" /\ pc[b] = "idle") =>
                  (call[a].res = "Ok") # (call[b].res = "Ok")

\* two stores of one absent key have raced and both have returned, the one
\* with Ok and the other with AlreadyExists
C11_Witness ==
    \E a \in Threads : \E b \in Threads \ {a} :
        /\ RivalStores(a, b)
        /\ pc[a] = "idle" /\ pc[b] = "idle"
        /\ call[a].res = "Ok" /\ call[b].res = "AlreadyExists"
        /\ Won(a, b)

\* a step of a call that thread t has begun
Step(t) ==
    \/ StoreCheck(t) \/ StoreWrite(t)
    \/ RetrieveLookup(t) \/ RetrieveRead(t)
    \/ DeleteLocked(t) \/ DeleteRemove(t) \/ Save(t)
    \/ StatsInner(t) \/ StatsQueued(t)
    \/ OptimizeCleanup(t) \/ OptimizeReturn(t)

\* a waits for a lock that cannot be granted before b has moved
WaitsFor(a, b) ==
    \/ pc[a] = "lock_write" /\ (HoldsRead(b) \/ HoldsWrite(b))
    \/ pc[a] = "stats_blocked" /\ pc[b] = "lock_write"

\* C12: termination.  No reachable state is deadlocked on the index lock:
\* whenever calls are in progress one of them can take its next step, and no
\* two calls wait for each other, get_usage_stats (which asks for the read
\* lock a second time while it holds it) included.
C12_Termination ==
    /\ (\E t \in Threads : pc[t] # "idle") =>
          \E t \in Threads : pc[t] # "idle" /\ ENABLED Step(t)
    /\ \A a \in Threads : \A b \in Threads \ {a} :
          ~(WaitsFor(a, b) /\ WaitsFor(b, a))

\* C13: store and delete keep the index to themselves until the snapshot is
\* written.  While a store or a delete stands between its change of the
\* index and its snapshot write, no other call reads or changes the index:
\* other threads at most call in and wait for the lock.
C13_ExclusiveUntilSaved ==
    [][\A t \in Threads :
          (/\ pc[t] = "save" /\ pc'[t] = "save"
           /\ call[t].op \in {"store", "delete"})
          => /\ metadata' = metadata
             /\ \A u \in Threads \ {t} :
                   \/ pc'[u] = pc[u] /\ call'[u] = call[u]
                   \/ pc[u] = "idle" /\ pc'[u] = "lock_write"]_vars

\* C17: the optimizer is detect-only apart from orphan cleanup.  No step of
\* an optimize call, whatever the other threads have in progress, changes
\* the index or the snapshot, adds or alters a data file, or removes the data
\* file of a key that is in the index.
C17_OptimizeDetectOnly ==
    [][\A t \in Threads :
          (call'[t].op = "optimize" /\ pc'[t] # pc[t])
          => /\ metadata' = metadata
             /\ key_to_path' = key_to_path
             /\ snapshot' = snapshot
             /\ \A p \in DOMAIN files' :
                   p \in DOMAIN files /\ files'[p] = files[p]
             /\ \A k \in DOMAIN metadata :
                   key_to_file_path(k) \in DOMAIN files
                       => key_to_file_path(k) \in DOMAIN files']_vars

\* an optimize call has done its cleanup after a failed file removal had
\* left an orphan, while the other thread is in the middle of a store whose
\* record is in the index with its data file in place
C17_Witness ==
    \E t \in Threads : \E u \in Threads \ {t} :
        /\ call[t].op = "optimize" /\ pc[t] = "opt_after"
        /\ faults >= 1
        /\ call[u].op = "store" /\ pc[u] = "save"
        /\ call[u].key \in DOMAIN metadata
        /\ key_to_file_path(call[u].key) \in DOMAIN files
        /\ Orphans(Cur) = {}

(* ----------------------- properties of maintenance -------------------- *)
\* the data file of some key of the index
Indexed(path) == \E k \in DOMAIN metadata : key_to_file_path(k) = path

\* C16: optimize removes every data file whose name is not the hash of an
\* indexed key and no other file, leaves the bytes of the files it keeps,
\* the index and the snapshot as they were, and reports as bytes_reclaimed
\* the sum of the sizes of the files it removed (0 when it removed none).
C16_OrphanCleanup ==
    \A e \in { OptimizeStorage(Cur) } :
        LET removed == DOMAIN files \ DOMAIN e.st.files IN
        /\ e.res = "Ok"
        /\ DOMAIN e.st.files = { p \in DOMAIN files : Indexed(p) }
        /\ \A p \in DOMAIN e.st.files : e.st.files[p] = files[p]
        /\ e.out[1].bytes_reclaimed =
               SumOver([p \in removed |-> Len(files[p])], removed)
        /\ (removed = {}) => e.out[1].bytes_reclaimed = 0
        /\ e.st.metadata = metadata
        /\ e.st.snapshot = snapshot

\* an orphan with bytes in it lies next to the data file of an indexed key
C16_Witness ==
    /\ \E p \in DOMAIN files : ~Indexed(p) /\ Len(files[p]) > 0
    /\ \E p \in DOMAIN files : Indexed(p)

\* C19: usage_stats reports the number of index entries, the sum of their
\* sizes and the sum of compressed_size where present and size otherwise;
\* the compressed total never exceeds the total, and the ratio is 1.0 when
\* no record is compressed or the index is empty.
C19_UsageStats ==
    \A e \in { GetUsageStats(Cur) } :
        LET stats == e.out[1]
            sizes == [k \in DOMAIN metadata |-> metadata[k].size]
            stored == [k \in DOMAIN metadata |->
                          IF metadata[k].compressed_size = None
                          THEN metadata[k].size
                          ELSE metadata[k].compressed_size[1]]
        IN
        /\ e.res = "Ok"
        /\ stats.total_files = Cardinality(DOMAIN metadata)
        /\ stats.total_size = SumOver(sizes, DOMAIN metadata)
        /\ stats.total_compressed_size = SumOver(stored, DOMAIN metadata)
        /\ stats.total_compressed_size <= stats.total_size
        /\ (\A k \in DOMAIN metadata : metadata[k].compression = None)
               => IsOne(stats.compression_ratio)
        /\ (\E k \in DOMAIN metadata : metadata[k].compression # None)
               => ~IsOne(stats.compression_ratio)

\* a compressed record and an uncompressed record of the same blob are
\* both in the index
C19_Witness ==
    \E a \in DOMAIN metadata, b \in DOMAIN metadata :
        /\ metadata[a].compression # None
        /\ metadata[b].compression = None
        /\ metadata[b].size > 0

\* C20: get_metadata and list_keys leave the index (access_count and
\* accessed_at included), the snapshot and the data files as they are;
\* get_metadata of a key that is not in the index is NotFound, of a key
\* that is returns its entry; list_keys returns exactly the keys of the
\* index.
C20_ReadOnly ==
    /\ \A key \in KeyArgs :
          \A e \in { GetMetadata(Cur, key) } :
              /\ e.st = Cur
              /\ (key \notin DOMAIN metadata) => e.res = "NotFound"
              /\ (key \in DOMAIN metadata)
                     => e.res = "Ok" /\ e.out = Some(metadata[key])
    /\ \A e \in { ListKeysCall(Cur) } :
          /\ e.st = Cur
          /\ e.res = "Ok"
          /\ e.out = Some(DOMAIN metadata)

\* one key is in the index, retrieved before, and another is not
C20_Witness ==
    /\ \E key \in Keys :
          /\ key \in DOMAIN metadata
          /\ metadata[key].access_count > 0
    /\ \E key \in Keys : key \notin DOMAIN metadata
    /\ snapshot.exists

(* ------------------------------ poisoning ----------------------------- *)
\* A call panics while it holds the write guard: what it did up to there
\* stays, the guard is dropped by unwinding and the lock is poisoned.  The
\* places where a call can stop are those where an I/O failure stops it.
Panicked(e) ==
    /\ e.struck
    /\ ~poisoned
    /\ \A k \in DOMAIN e.st.metadata :
          e.st.metadata[k].access_count <= MaxAccess
    /\ metadata' = e.st.metadata
    /\ key_to_path' = e.st.key_to_path
    /\ files' = e.st.files
    /\ snapshot' = e.st.snapshot
    /\ crypto_key' = e.st.crypto_key
    /\ now' = e.st.now
    /\ poisoned' = TRUE
    /\ UNCHANGED <<faults, key_file, pc, call>>

StorePanic ==
    \E key \in Keys, data \in DataSet, secret \in Secrets,
       compress \in BOOLEAN, v \in NonceVals, at \in StoreFaults :
        \E e \in { StoreData(Cur, key, data, secret, compress, Nonce(v), at) } :
            /\ Panicked(e)
            /\ origin' = IF key \in DOMAIN e.st.metadata
                         THEN Put(origin, key,
                                  [data |-> data, secret |-> secret])
                         ELSE origin
            /\ damage' = IF e.st.files # files
                         THEN Del(damage, key_to_file_path(key)) ELSE damage
            /\ UNCHANGED gone

RetrievePanic ==
    \E key \in Keys, secret \in Secrets, at \in RetrieveFaults :
        \E e \in { RetrieveData(Cur, key, secret, at) } :
            /\ Panicked(e)
            /\ UNCHANGED <<origin, damage, gone>>

DeletePanic ==
    \E key \in Keys, at \in DeleteFaults :
        \E e \in { DeleteData(Cur, key, at) } :
            /\ Panicked(e)
            /\ origin' = [k \in DOMAIN origin \cap DOMAIN e.st.metadata
                             |-> origin[k]]
            /\ damage' = [p \in DOMAIN damage \cap DOMAIN e.st.files
                             |-> damage[p]]
            /\ UNCHANGED gone

\* the service with calls that may panic inside their critical section
NextPoison ==
    \/ Store \/ Retrieve \/ Delete
    \/ GetMeta \/ list_keys \/ get_usage_stats \/ optimize_storage
    \/ StorePanic \/ RetrievePanic \/ DeletePanic

SpecPoison == Init /\ [][NextPoison]_vars

\* the call returned an error and left the service and its files alone
Refused(e) ==
    /\ e.res \in {"LockPoisoned", "InvalidKey", "SizeLimitExceeded"}
    /\ e.out = None
    /\ e.st = Cur

\* C14: once the index lock is poisoned, every store, retrieve, delete,
\* get_metadata, list_keys, usage_stats and optimize call returns an error
\* and changes neither the index nor the snapshot nor any data file.
C14_PoisonIsFatal ==
    poisoned =>
        /\ \A key \in KeyArgs, data \in ProbeData, secret \in Secrets,
              compress \in BOOLEAN, fault \in StoreFaults \cup {"none"} :
              Refused(StoreData(Cur, key, data, secret, compress,
                                Nonce(0), fault))
        /\ \A key \in KeyArgs, secret \in Secrets,
              fault \in RetrieveFaults \cup {"none"} :
              Refused(RetrieveData(Cur, key, secret, fault))
        /\ \A key \in KeyArgs, fault \in DeleteFaults \cup {"none"} :
              Refused(DeleteData(Cur, key, fault))
        /\ \A key \in KeyArgs : Refused(GetMetadata(Cur, key))
        /\ Refused(ListKeysCall(Cur))
        /\ Refused(GetUsageStats(Cur))
        /\ Refused(OptimizeStorage(Cur))

\* the lock is poisoned with a record in the index and in the snapshot and
\* an orphan on the disk that optimize would otherwise remove
C14_Witness ==
    /\ poisoned
    /\ snapshot.exists
    /\ \E key \in DOMAIN metadata :
          /\ key \in DOMAIN snapshot.metadata
          /\ key_to_file_path(key) \in DOMAIN files
    /\ \E p \in DOMAIN files : ~Indexed(p)

(* ------------------------------- restart ------------------------------ *)
\* the master keys that the service may come to use
MasterKeys == MasterKey..(MasterKey + MaxRekey)

\* index.json with something in it that is not the JSON of an index
Torn == [exists |-> TRUE, torn |-> TRUE]

Missing == [exists |-> FALSE, metadata |-> EmptyMap]

\* serde_json::from_str::<HashMap<String, StorageMetadata>>
FromStr(snap) ==
    IF "metadata" \in DOMAIN snap
    THEN [ok |-> TRUE, metadata |-> snap.metadata]
    ELSE [ok |-> FALSE, metadata |-> EmptyMap]

\* load_from_file that does not rebuild the key-to-path mapping
load_from_file_NoPaths(snap) ==
    IF ~snap.exists
    THEN [ok |-> TRUE, metadata |-> EmptyMap, key_to_path |-> EmptyMap]
    ELSE LET parsed == FromStr(snap) IN
         [ok |-> parsed.ok, metadata |-> parsed.metadata,
          key_to_path |-> EmptyMap]

\* StorageIndex::load_from_file on a new StorageIndex
load_from_file(snap) ==
    IF ~snap.exists
    THEN [ok |-> TRUE, metadata |-> EmptyMap, key_to_path |-> EmptyMap]
    ELSE LET parsed == FromStr(snap) IN
         IF ~parsed.ok
         THEN [ok |-> FALSE, metadata |-> EmptyMap, key_to_path |-> EmptyMap]
         ELSE [ok |-> TRUE, metadata |-> parsed.metadata,
               key_to_path |-> [k \in DOMAIN parsed.metadata
                                   |-> key_to_file_path(k)]]

\* derive_master_key that takes what it read whatever its length
derive_master_key_AnyLen(kf, fresh) ==
    IF kf.exists
    THEN [key |-> kf.key, key_file |-> kf]
    ELSE [key |-> fresh, key_file |-> KeyFile(KeyLen, fresh)]

\* derive_master_key: the key of the service and the key file it leaves;
\* fresh is what SystemRandom yields
derive_master_key(kf, fresh) ==
    IF kf.exists /\ kf.len = KeyLen
    THEN [key |-> kf.key, key_file |-> kf]
    ELSE [key |-> fresh, key_file |-> KeyFile(KeyLen, fresh)]

\* New with the error of load_from_file passed on to the caller
New_Strict(st, kf, fresh) ==
    LET loaded == load_from_file(st.snapshot)
        master == derive_master_key(kf, fresh)
    IN IF ~loaded.ok
       THEN [res |-> "CorruptIndex", st |-> st, key_file |-> kf]
       ELSE [res |-> "Ok",
             st |-> State(loaded.metadata, loaded.key_to_path, st.files,
                          st.snapshot, master.key, st.now, FALSE),
             key_file |-> master.key_file]

\* StorageService::new and start on the storage directory of st, with the
\* key file kf
New(st, kf, fresh) ==
    LET loaded == load_from_file(st.snapshot)
        \* a failed load is logged and the index starts empty
        index == IF loaded.ok THEN loaded
                 ELSE [metadata |-> EmptyMap, key_to_path |-> EmptyMap]
        master == derive_master_key(kf, fresh)
    IN [res |-> "Ok",
        st |-> State(index.metadata, index.key_to_path, st.files,
                     st.snapshot, master.key, st.now, FALSE),
        key_file |-> master.key_file]

\* a key that no earlier run of the service has used
Fresh == crypto_key + 1

\* the process ends and the service is constructed again on the directory
Restart ==
    \E e \in { New(Cur, key_file, Fresh) } :
        /\ e.res = "Ok"
        /\ metadata' = e.st.metadata
        /\ key_to_path' = e.st.key_to_path
        /\ files' = e.st.files
        /\ snapshot' = e.st.snapshot
        /\ crypto_key' = e.st.crypto_key
        /\ now' = e.st.now
        /\ poisoned' = e.st.poisoned
        /\ key_file' = e.key_file
        /\ UNCHANGED <<origin, damage, faults, gone, pc, call>>

Outside ==
    UNCHANGED <<metadata, key_to_path, files, crypto_key, now, origin,
                damage, faults, gone, poisoned, pc, call>>

\* index.json is removed from outside
IndexRemoved ==
    /\ snapshot.exists
    /\ snapshot' = Missing
    /\ UNCHANGED key_file
    /\ Outside

\* index.json is overwritten or cut short from outside
IndexTorn ==
    /\ snapshot.exists
    /\ snapshot # Torn
    /\ snapshot' = Torn
    /\ UNCHANGED key_file
    /\ Outside

\* .master_key is cut short, extended or removed from outside
KeyFileDamaged ==
    /\ key_file.exists
    /\ key_file.len = KeyLen
    /\ crypto_key < MasterKey + MaxRekey
    /\ \E kf \in { [key_file EXCEPT !.len = KeyLen - 1],
                   [key_file EXCEPT !.len = KeyLen + 1],
                   [key_file EXCEPT !.exists = FALSE, !.len = 0] } :
          key_file' = kf
    /\ UNCHANGED snapshot
    /\ Outside

\* the service, restarted now and then, on a directory that others write
\* to; what retrieve does after a restart is asked of RetrieveData in every
\* state
NextRestart ==
    \/ Store \/ Delete
    \/ Restart \/ IndexRemoved \/ IndexTorn \/ KeyFileDamaged

SpecRestart == Init /\ [][NextRestart]_vars

\* C15: constructing the service when index.json is missing or malformed
\* succeeds, with an empty index of which list_keys reports no key, and
\* leaves the data files (and the malformed index.json) as they were.
C15_CorruptCatalogue ==
    (~snapshot.exists \/ ~FromStr(snapshot).ok) =>
        \A e \in { New(Cur, key_file, Fresh) } :
            /\ e.res = "Ok"
            /\ e.st.metadata = EmptyMap
            /\ e.st.key_to_path = EmptyMap
            /\ ListKeysCall(e.st).res = "Ok"
            /\ ListKeysCall(e.st).out = Some({})
            /\ e.st.files = files
            /\ e.st.snapshot = snapshot

\* the service has started with an empty index on a directory that holds
\* a malformed index.json and data files
C15_Witness ==
    /\ snapshot = Torn
    /\ metadata = EmptyMap
    /\ \E p \in DOMAIN files : Len(files[p]) >= MinEncryptedLen

\* the data file of key is what a store under the master key m wrote
StoredUnder(st, key, m) ==
    /\ key \in DOMAIN origin
    /\ key_to_file_path(key) \in DOMAIN st.files
    /\ \E compress \in BOOLEAN, v \in NonceVals :
          st.files[key_to_file_path(key)] =
              encrypt_data(m, Processed(origin[key].data, compress).bytes,
                           origin[key].secret, Nonce(v))

\* retrieve of key fails with DecryptionFailed under every secret
Undecryptable(st, key) ==
    \A secret \in ProbeSecrets :
        \A r \in { RetrieveData(st, key, secret, "none") } :
            /\ r.res = "DecryptionFailed"
            /\ r.out = None
            /\ r.st = st

\* C18: construction over a .master_key file that is not 32 bytes long
\* writes a 32-byte file with a key never used before and takes that key,
\* and then every record stored under an earlier key fails retrieve with
\* DecryptionFailed; a .master_key file of 32 bytes is left as it is and
\* its key is taken.
C18_MasterKeyReplacement ==
    \A e \in { New(Cur, key_file, Fresh) } :
        /\ (key_file.exists /\ key_file.len # KeyLen) =>
              /\ e.key_file = KeyFile(KeyLen, e.st.crypto_key)
              /\ e.st.crypto_key # crypto_key
              /\ \A key \in Keys :
                    ~StoredUnder(e.st, key, e.st.crypto_key)
              /\ \A key \in DOMAIN e.st.metadata :
                    /\ \E m \in MasterKeys \ {e.st.crypto_key} :
                          StoredUnder(e.st, key, m)
                    /\ Undecryptable(e.st, key)
        /\ (key_file.exists /\ key_file.len = KeyLen) =>
              /\ e.key_file = key_file
              /\ e.st.crypto_key = key_file.key

\* the service runs under a replaced master key with a record in its index
\* that was stored under the first one
C18_Witness ==
    /\ crypto_key # MasterKey
    /\ key_file = KeyFile(KeyLen, crypto_key)
    /\ \E key \in DOMAIN metadata :
          /\ StoredUnder(Cur, key, MasterKey)
          /\ Undecryptable(Cur, key)

(* -------------------------- properties of calls ----------------------- *)
\* the entry of key after one more access at the time of st
Accessed(st, key) ==
    [st.metadata[key] EXCEPT !.access_count = @ + 1, !.accessed_at = st.now]

\* what a retrieve that succeeds does to the state, and how a store starts
\* an entry
C24_Bookkeeping ==
    /\ \A key \in DOMAIN metadata, secret \in ProbeSecrets :
          \A r \in { RetrieveData(Cur, key, secret, "none") } :
              r.res = "Ok" =>
                  /\ DOMAIN r.st.metadata = DOMAIN metadata
                  /\ r.st.metadata[key] = Accessed(Cur, key)
                  /\ \A other \in DOMAIN metadata \ {key} :
                        r.st.metadata[other] = metadata[other]
                  /\ r.st.key_to_path = key_to_path
                  /\ r.st.files = files
    /\ \A key \in Keys \ DOMAIN metadata, data \in ProbeData,
          secret \in Secrets, compress \in BOOLEAN :
          \A s \in { StoreData(Cur, key, data, secret, compress,
                               Nonce(0), "none") } :
              s.res = "Ok" => s.st.metadata[key].access_count = 0

\* no step lowers the access_count of a key that stays in the index, and a
\* key enters the index with access_count 0
C24_Monotonic ==
    \A key \in Keys :
        /\ (key \in DOMAIN metadata /\ key \in DOMAIN metadata') =>
              metadata'[key].access_count >= metadata[key].access_count
        /\ (key \notin DOMAIN metadata /\ key \in DOMAIN metadata') =>
              metadata'[key].access_count = 0

\* C24: a retrieve that succeeds raises the access_count of its key by
\* exactly 1 and sets its accessed_at, and changes no other field of the
\* entry, no entry of another key and no data file; access_count is 0 right
\* after store and never decreases while the key stays in the index.
C24_RetrieveBookkeeping == []C24_Bookkeeping /\ [][C24_Monotonic]_vars

\* a key that was retrieved after the clock advanced lies next to a key that
\* never was
C24_Witness ==
    \E a \in DOMAIN metadata, b \in DOMAIN metadata :
        /\ metadata[a].access_count = 1
        /\ metadata[a].accessed_at > metadata[a].created_at
        /\ metadata[b].access_count = 0

\* C27: a retrieve that fails at the lookup, at the read of the data file,
\* at decryption, at decompression or at the hash check leaves every index
\* entry (access_count and accessed_at of its key included), the snapshot
\* and every data file as they were.
C27_FailedRetrieve ==
    \A key \in KeyArgs, secret \in ProbeSecrets,
       fault \in {"none", "read_file"} :
        \A r \in { RetrieveData(Cur, key, secret, fault) } :
            r.res # "Ok" =>
                /\ r.res \in {"InvalidKey", "NotFound", "IOError",
                              "DecryptionFailed", "DecompressionFailed",
                              "IntegrityViolation"}
                /\ r.out = None
                /\ r.st = Cur

\* a key that was retrieved before has a data file on which retrieve fails
\* at the hash check with the right secret and at decryption with another
C27_Witness ==
    \E key \in DOMAIN metadata :
        /\ metadata[key].access_count > 0
        /\ RetrieveData(Cur, key, origin[key].secret, "none").res
              = "IntegrityViolation"
        /\ \E secret \in ProbeSecrets :
              RetrieveData(Cur, key, secret, "none").res = "DecryptionFailed"

\* C28: a store that returns an error, whatever made it fail, leaves a key
\* that was absent from the index absent and leaves no data file for it
\* that was not there before.
C28_FailedStore ==
    \A key \in Keys \ DOMAIN metadata, data \in ProbeData,
       secret \in Secrets, compress \in BOOLEAN, fault \in AnyStoreFault :
        \A s \in { StoreData(Cur, key, data, secret, compress,
                             Nonce(0), fault) } :
            s.res # "Ok" =>
                /\ key \notin ListKeys(s.st)
                /\ GetMetadata(s.st, key).res = "NotFound"
                /\ (key_to_file_path(key) \notin DOMAIN files
                       => key_to_file_path(key) \notin DOMAIN s.st.files)

(* ------------------ properties of concurrent mutations ---------------- *)
\* no call is in progress
Quiescent == \A t \in Threads : pc[t] = "idle"

\* C21: the snapshot follows every mutation.  Whenever a store, retrieve or
\* delete has returned success and no call is in progress, index.json holds
\* exactly the metadata map of the index, in every interleaving.
C21_SnapshotFollows ==
    (/\ Quiescent
     /\ \E t \in Threads : call[t].op \in Writers /\ call[t].res = "Ok")
        => snapshot = save_index(metadata)

\* while t is in the pipeline of retrieve its key is in the index with its
\* path, and no other call is inside a section that holds the index lock
C25_Alone ==
    \A t \in Threads :
        pc[t] = "reading" =>
            /\ call[t].key \in DOMAIN metadata
            /\ call[t].key \in DOMAIN key_to_path
            /\ key_to_path[call[t].key] \in DOMAIN files
            /\ \A u \in Threads \ {t} : ~HoldsWrite(u) /\ ~HoldsRead(u)

\* a retrieve that succeeds counts one access, and nothing else changes the
\* access_count of a key that stays in the index
C25_Counted ==
    \A key \in DOMAIN metadata \cap DOMAIN metadata' :
        LET counted == { t \in Threads :
                            /\ call[t].op = "retrieve" /\ call[t].key = key
                            /\ pc[t] = "reading" /\ pc'[t] = "save" }
        IN metadata'[key].access_count
               = metadata[key].access_count + Cardinality(counted)

\* C25: retrieve is serialized.  From the lookup to the access_count update
\* a retrieve holds the lock alone, so that its pipeline overlaps no locked
\* section of another call, its key is not removed from the index under
\* it, and every retrieve that succeeds raises access_count by exactly one.
C25_RetrieveSerialized == []C25_Alone /\ [][C25_Counted]_vars

\* two retrieves of one key are in progress at once, both have counted
\* their access and neither has written the snapshot yet
C25_Witness ==
    \E a \in Threads : \E b \in Threads \ {a} :
        /\ call[a].op = "retrieve" /\ call[b].op = "retrieve"
        /\ call[a].key = call[b].key
        /\ pc[a] = "save" /\ pc[b] = "save"
        /\ metadata[call[a].key].access_count = 2

(* -------------------------------- crash ------------------------------- *)
\* the record of key as get_metadata shows it
Shown(st, key) ==
    LET m == GetMetadata(st, key) IN
    IF m.res = "Ok" THEN Some(<<m.out[1].size, m.out[1].hash,
                                m.out[1].compression>>)
    ELSE None

\* C22: durability across restart.  With index.json and a 32-byte
\* .master_key intact, a service constructed again on the directory has
\* exactly the keys of the snapshot, the key-to-path mapping recomputed for
\* exactly those keys, and for every record stored under that master key
\* and not deleted, retrieve with the secret of its store returns the blob
\* and get_metadata shows the size, hash and compression tag it showed.
C22_Durability ==
    (/\ snapshot.exists /\ FromStr(snapshot).ok
     /\ key_file.exists /\ key_file.len = KeyLen) =>
        \A e \in { New(Cur, key_file, Fresh) } :
            /\ e.res = "Ok"
            /\ DOMAIN e.st.metadata = DOMAIN snapshot.metadata
            /\ DOMAIN e.st.key_to_path = DOMAIN snapshot.metadata
            /\ \A key \in DOMAIN e.st.key_to_path :
                  e.st.key_to_path[key] = key_to_file_path(key)
            /\ \A key \in DOMAIN metadata :
                  StoredUnder(Cur, key, key_file.key) =>
                      /\ RetrieveData(e.st, key, origin[key].secret,
                                      "none").res = "Ok"
                      /\ RetrieveData(e.st, key, origin[key].secret,
                                      "none").out = Some(origin[key].data)
                      /\ Shown(e.st, key) = Shown(Cur, key)
                      /\ Shown(e.st, key) =
                            Some(<<Len(origin[key].data),
                                   Sha256(origin[key].data),
                                   metadata[key].compression>>)

\* the service runs under its second master key, after a restart, with a
\* compressed record stored under that key in the index and the snapshot
C22_Witness ==
    /\ crypto_key # MasterKey
    /\ key_file = KeyFile(KeyLen, crypto_key)
    /\ snapshot = save_index(metadata)
    /\ \E key \in DOMAIN metadata :
          /\ StoredUnder(Cur, key, crypto_key)
          /\ metadata[key].compression # None

\* the process dies at the point where e stands and the service is
\* constructed again on what is on the disk then
Crashed(e) ==
    /\ e.struck
    /\ \E r \in { New(e.st, key_file, Fresh) } :
          /\ metadata' = r.st.metadata
          /\ key_to_path' = r.st.key_to_path
          /\ files' = r.st.files
          /\ snapshot' = r.st.snapshot
          /\ crypto_key' = r.st.crypto_key
          /\ now' = r.st.now
          /\ poisoned' = r.st.poisoned
          /\ key_file' = r.key_file
          /\ damage' = [p \in DOMAIN damage \cap DOMAIN r.st.files
                           |-> damage[p]]

\* a crash inside store_data, before index.json is written
CrashInStore ==
    \E key \in Keys, data \in DataSet, secret \in Secrets,
       compress \in BOOLEAN, v \in NonceVals, at \in StoreFaults :
        /\ Crashed(StoreData(Cur, key, data, secret, compress, Nonce(v), at))
        /\ UNCHANGED <<origin, faults, gone, pc, call>>

\* a crash inside delete_data, before index.json is written
CrashInDelete ==
    \E key \in Keys, at \in DeleteFaults :
        /\ Crashed(DeleteData(Cur, key, at))
        /\ UNCHANGED <<origin, faults, gone, pc, call>>

\* the service on a machine that may go down in the middle of a call
NextCrash ==
    \/ Store \/ Retrieve \/ Delete \/ optimize_storage
    \/ CrashInStore \/ CrashInDelete

SpecCrash == Init /\ [][NextCrash]_vars

\* the service constructed on the disk that a crash of store(key, ...)
\* leaves, the data file written and index.json not
AfterCrashedStore(key, data, secret, compress) ==
    New(StoreData(Cur, key, data, secret, compress, Nonce(0),
                  "save_index").st, key_file, Fresh).st

\* C23: crash during store.  After a crash of store(key, ...) between the
\* write of the data file and the write of the snapshot, and a restart, the
\* key is absent (retrieve and get_metadata fail with NotFound, list_keys
\* omits it), its data file is an orphan that the next optimize removes and
\* counts in bytes_reclaimed, a new store of the key succeeds, and every
\* record that could be retrieved before the crash still can.
C23_CrashDuringStore ==
    \A key \in Keys \ DOMAIN metadata, data \in DataSet,
       secret \in Secrets, compress \in BOOLEAN :
        ~ExceedsLimit(data) =>
        \A r \in { AfterCrashedStore(key, data, secret, compress) } :
        \A o \in { OptimizeStorage(r) } :
            LET path == key_to_file_path(key) IN
            /\ key \notin ListKeys(r)
            /\ GetMetadata(r, key).res = "NotFound"
            /\ \A s2 \in ProbeSecrets :
                  RetrieveData(r, key, s2, "none").res = "NotFound"
            /\ path \in DOMAIN r.files
            /\ r.files[path] = encrypt_data(crypto_key,
                                   Processed(data, compress).bytes,
                                   secret, Nonce(0))
            /\ o.res = "Ok"
            /\ path \notin DOMAIN o.st.files
            /\ o.out[1].bytes_reclaimed >= Len(r.files[path])
            /\ o.out[1].bytes_reclaimed =
                  SumOver([p \in DOMAIN r.files \ DOMAIN o.st.files
                              |-> Len(r.files[p])],
                          DOMAIN r.files \ DOMAIN o.st.files)
            /\ \A d2 \in DataSet, s2 \in Secrets, c2 \in BOOLEAN :
                  ~ExceedsLimit(d2) =>
                      /\ StoreData(r, key, d2, s2, c2, Nonce(0),
                                   "none").res = "Ok"
                      /\ RetrieveData(
                             StoreData(r, key, d2, s2, c2, Nonce(0),
                                       "none").st,
                             key, s2, "none").out = Some(d2)
            /\ \A k2 \in DOMAIN metadata, s2 \in Secrets :
                  RetrieveData(Cur, k2, s2, "none").res = "Ok" =>
                      RetrieveData(r, k2, s2, "none").out
                          = RetrieveData(Cur, k2, s2, "none").out

\* the service has come up after a crash of a store: the data file of a key
\* that is not in the index lies next to a record that can be retrieved
C23_Witness ==
    /\ \E key \in Keys \ DOMAIN metadata :
          /\ key_to_file_path(key) \in DOMAIN files
          /\ Len(files[key_to_file_path(key)]) >= MinEncryptedLen
          /\ key \notin gone
    /\ \E key \in DOMAIN metadata :
          RetrieveData(Cur, key, origin[key].secret, "none").res = "Ok"
    /\ snapshot = save_index(metadata)

\* C29: index and files agree.  In every state where no call is in
\* progress, states reached by a restart after a crash inside store or
\* delete included, every key of the index has its path and its data file,
\* so that no retrieve fails because the file cannot be read.
C29_IndexFileAgreement ==
    \A key \in DOMAIN metadata :
        /\ key \in DOMAIN key_to_path
        /\ key_to_path[key] \in DOMAIN files
        /\ \A secret \in ProbeSecrets :
              RetrieveData(Cur, key, secret, "none").res # "IOError"

(* ----------------------- the C entry points (FFI) --------------------- *)
\* Keys and encryption keys are the bytes of C strings, blobs are sequences
\* of one-byte tuples as in the data files above.

\* the keys callers pass: "Aa", "BB", "A" and "B"
FfiKeys == { <<65, 97>>, <<66, 66>>, <<65>>, <<66>> }

\* the encryption keys callers pass: a null pointer, "s" and "pw"
FfiSecrets == { None, Some(<<115>>), Some(<<112, 119>>) }

\* the four bytes compress_data puts in front
ZlibHeader == << <<120>>, <<156>>, <<0>>, <<0>> >>

\* the blobs callers pass: none, one byte, and five bytes that begin like
\* the output of compress_data
FfiData == { <<>>, << <<7>> >>, ZlibHeader \o << <<7>> >> }

\* hash_key: hash = hash.wrapping_mul(31).wrapping_add(byte) over the key,
\* printed as 16 hex digits; the keys here are too short to wrap a u64
hash_key(key) ==
    LET hash[i \in 0..Len(key)] ==
            IF i = 0 THEN 0 ELSE hash[i - 1] * 31 + key[i]
    IN hash[Len(key)]

\* <storage_dir>/data_<hash_key(key)>.enc
FfiPath(key) == <<"enc", <<hash_key(key)>> >>

\* simple_hash: 32 bytes of state; byte i of the data and 7 * i are added
\* to hash[i % 32]; then one pass in place, hash[i] = (hash[i] +
\* hash[(i + 1) % 32]) * 33, so that the last byte sees the new first one
simple_hash(data) ==
    LET added == [i \in 1..Len(data) |->
                     (data[i] + ((((i - 1) % 256) * 7) % 256)) % 256]
        hash == [pos \in 0..31 |->
                    SumOver(added, { i \in 1..Len(data) : (i - 1) % 32 = pos })
                        % 256]
        first == ((hash[0] + hash[1]) * 33) % 256
    IN [i \in 1..32 |->
           IF i = 32 THEN ((hash[31] + first) * 33) % 256
           ELSE ((hash[i - 1] + hash[i]) * 33) % 256]

\* hmac_sha256 over simple_hash, block size 64
hmac_sha256(key, data) ==
    LET Xor(a, b) ==
            SumOver([i \in 0..7 |-> (((a \div 2^i) + (b \div 2^i)) % 2) * 2^i],
                    0..7)
        k_pad == [i \in 1..64 |->
                     IF Len(key) <= 64
                     THEN (IF i <= Len(key) THEN key[i] ELSE 0)
                     ELSE (IF i <= 32 THEN simple_hash(key)[i] ELSE 0)]
        inner_hash == simple_hash([i \in 1..64 |-> Xor(k_pad[i], 54)] \o data)
    IN simple_hash([i \in 1..64 |-> Xor(k_pad[i], 92)] \o inner_hash)

\* derive_key_hkdf(key, "neo-enclave-storage-hkdf-salt-v1",
\*                 "neo-storage-encryption")
derive_key_hkdf(ikm) ==
    LET salt == <<110, 101, 111, 45, 101, 110, 99, 108, 97, 118, 101, 45,
                  115, 116, 111, 114, 97, 103, 101, 45, 104, 107, 100, 102,
                  45, 115, 97, 108, 116, 45, 118, 49>>
        info == <<110, 101, 111, 45, 115, 116, 111, 114, 97, 103, 101, 45,
                  101, 110, 99, 114, 121, 112, 116, 105, 111, 110>>
    IN hmac_sha256(hmac_sha256(salt, ikm), info \o <<1>>)

\* derive_key_hkdf of each encryption key callers pass
HkdfKeys == [s \in { <<115>>, <<112, 119>> } |->
                LET k == derive_key_hkdf(s) IN [i \in 1..KeyLen |-> k[i]]]

\* encrypt_data: IV(12) || tag(16) || ciphertext, key from derive_key_hkdf;
\* the tag of AES-GCM is a MAC term in the first of its 16 bytes
ffi_encrypt_data(data, key, iv) ==
    LET enc_key == HkdfKeys[key]
        ct == [i \in 1..Len(data) |-> <<"ct", enc_key, data[i]>>]
        tag == [i \in 1..TagLen |->
                   IF i = 1 THEN <<"tag", enc_key, iv, ct>> ELSE <<0>>]
    IN iv \o tag \o ct

\* decrypt_data: the same layout, dec_key[i] = key[i % key.len()] + i
ffi_decrypt_data(data, key) ==
    IF Len(data) < MinEncryptedLen THEN [ok |-> FALSE, bytes |-> <<>>]
    ELSE LET iv == SubSeq(data, 1, NonceLen)
             tag == SubSeq(data, NonceLen + 1, MinEncryptedLen)
             ct == SubSeq(data, MinEncryptedLen + 1, Len(data))
             dec_key == [i \in 1..KeyLen |->
                            (key[((i - 1) % Len(key)) + 1] + (i - 1)) % 256]
             expected == [i \in 1..TagLen |->
                             IF i = 1 THEN <<"tag", dec_key, iv, ct>>
                             ELSE <<0>>]
         IN IF tag = expected
            THEN [ok |-> TRUE, bytes |-> [i \in 1..Len(ct) |-> ct[i][3]]]
            ELSE [ok |-> FALSE, bytes |-> <<>>]

\* compress_data: the header, then the data as it is
ffi_compress_data(data) == ZlibHeader \o data

\* decompress_data: the data without the header, if it begins with it
ffi_decompress_data(data) ==
    IF Len(data) > 4 /\ SubSeq(data, 1, 4) = ZlibHeader
    THEN SubSeq(data, 5, Len(data))
    ELSE data

\* occlum_storage_store on the directory fs, iv being what sgx_read_rand
\* yields; the result buffer is large enough
occlum_storage_store(fs, key, data, encryption_key, compress, iv) ==
    IF Len(data) = 0 THEN [res |-> "InvalidParameter", files |-> fs]
    ELSE LET packed == IF compress THEN ffi_compress_data(data) ELSE data
             final_data == IF IsSome(encryption_key)
                           THEN ffi_encrypt_data(packed, encryption_key[1], iv)
                           ELSE packed
         IN [res |-> "Success", files |-> Put(fs, FfiPath(key), final_data)]

\* occlum_storage_retrieve on the directory fs
occlum_storage_retrieve(fs, key, encryption_key) ==
    IF FfiPath(key) \notin DOMAIN fs
    THEN [res |-> "FileNotFound", out |-> None]
    ELSE LET file_data == fs[FfiPath(key)]
             dec == IF IsSome(encryption_key)
                    THEN ffi_decrypt_data(file_data, encryption_key[1])
                    ELSE [ok |-> TRUE, bytes |-> file_data]
         IN IF ~dec.ok THEN [res |-> "DecryptionFailed", out |-> None]
            ELSE [res |-> "Success",
                  out |-> Some(IF /\ Len(dec.bytes) > 4
                                  /\ SubSeq(dec.bytes, 1, 4) = ZlibHeader
                               THEN ffi_decompress_data(dec.bytes)
                               ELSE dec.bytes)]

\* the entry points leave the service and its history alone
FfiStore ==
    \E key \in FfiKeys, data \in FfiData, encryption_key \in FfiSecrets,
       compress \in BOOLEAN, v \in NonceVals :
        /\ files' = occlum_storage_store(files, key, data, encryption_key,
                                         compress, Nonce(v)).files
        /\ UNCHANGED <<metadata, key_to_path, snapshot, crypto_key, now,
                     origin, damage, faults, gone, poisoned, key_file, pc,
                     call>>

FfiRetrieve ==
    \E key \in FfiKeys, encryption_key \in FfiSecrets :
        /\ occlum_storage_retrieve(files, key, encryption_key).res
              \in {"Success", "FileNotFound", "DecryptionFailed"}
        /\ UNCHANGED files
        /\ UNCHANGED <<metadata, key_to_path, snapshot, crypto_key, now,
                     origin, damage, faults, gone, poisoned, key_file, pc,
                     call>>

\* occlum_storage_delete: fs::remove_file of the path of the key
FfiDelete ==
    \E key \in FfiKeys :
        /\ FfiPath(key) \in DOMAIN files
        /\ files' = Del(files, FfiPath(key))
        /\ UNCHANGED <<metadata, key_to_path, snapshot, crypto_key, now,
                     origin, damage, faults, gone, poisoned, key_file, pc,
                     call>>

\* the C entry points on their directory
NextFfi == FfiStore \/ FfiRetrieve \/ FfiDelete

SpecFfi == Init /\ [][NextFfi]_vars

\* C26: collision-free file locations.  Two different keys have different
\* data file paths, under StorageIndex::key_to_file_path and under the path
\* the C entry points build from hash_key, so that a store under one key
\* never changes what retrieve returns under another.
C26_CollisionFree ==
    /\ \A k1 \in Keys : \A k2 \in Keys \ {k1} :
          key_to_file_path(k1) # key_to_file_path(k2)
    /\ \A k1 \in FfiKeys : \A k2 \in FfiKeys \ {k1} :
          /\ FfiPath(k1) # FfiPath(k2)
          /\ \A data \in FfiData, encryption_key \in FfiSecrets,
                compress \in BOOLEAN, other \in FfiSecrets :
                occlum_storage_retrieve(
                    occlum_storage_store(files, k1, data, encryption_key,
                                         compress, Nonce(0)).files,
                    k2, other).out
                    = occlum_storage_retrieve(files, k2, other).out

\* C30: FFI round trip.  For every key, every non-empty blob, every
\* encryption key (none included) and both values of the compress flag,
\* occlum_storage_store succeeds and occlum_storage_retrieve with the same
\* key and encryption key then succeeds and returns exactly the blob.
C30_FfiRoundTrip ==
    \A key \in FfiKeys, data \in FfiData \ {<<>>},
       encryption_key \in FfiSecrets, compress \in BOOLEAN :
        \A s \in { occlum_storage_store(files, key, data, encryption_key,
                                        compress, Nonce(0)) } :
        \A r \in { occlum_storage_retrieve(s.files, key, encryption_key) } :
            /\ s.res = "Success"
            /\ r.res = "Success"
            /\ r.out = Some(data)

====
